---- MODULE Spec2Model ----
(***************************************************************************)
(* Model of the WorkBuddies dashboard coordination layer: the shared data  *)
(* store (window.WorkBuddies.data), the deferred filter pipeline           *)
(* (utils.filterData), tab switching (utils.switchTab), the map and state  *)
(* chart adapters and the chart's bar-click focus handler.                 *)
(*                                                                         *)
(* Every JavaScript handler runs to completion, so each handler is one     *)
(* action.  setTimeout(..., 0) callbacks are kept in a FIFO queue.         *)
(***************************************************************************)
EXTENDS Integers, Sequences, FiniteSets, TLC

\* ---- bounds of the model ----
MaxClock == 1      \* Date.now() takes the values 0..MaxClock
MaxIssue == 2      \* at most MaxIssue filterData calls in a run

\* ---- program constants ----
LoadingThreshold == 100    \* filterData shows the loading overlay above this

VARIABLES
    raw,                \* WorkBuddies.data.raw        (Null or Arr(records))
    filtered,           \* WorkBuddies.data.filtered   (Null or Arr(records))
    states,             \* WorkBuddies.data.states     (Null or Arr(strings))
    activeTab,          \* WorkBuddies.data.activeTab
    isLoading,          \* WorkBuddies.data.isLoading
    lastFilterApplied,  \* WorkBuddies.data.lastFilterApplied
    nameInput,          \* value of <input id="name-filter">
    stateSelect,        \* value of <select id="state-filter">
    options,            \* option values of <select id="state-filter">
    appState,           \* "loading" | "ready" | "failed"  (initializeApp)
    pending,            \* setTimeout(...,0) callbacks of filterData, FIFO
    now,                \* Date.now()
    domPurify,          \* typeof DOMPurify !== 'undefined'
    mapReady,           \* mapViz.map !== null
    markers,            \* mapViz.markers (the plotted records)
    viewport,           \* the map's view: last setView / fitBounds
    noData,             \* #map-no-data overlay: "absent" | "shown" | "hidden"
    chartBars,          \* stateData bound to the chart's bars
    chartNoData,        \* chart shows 'No data to display'
    chartFallback,      \* chart container shows the 'library not available' message
    activePanes,        \* the .tab-pane elements carrying the class 'active'
    isDarkMode,         \* darkMode.isDarkMode
    errorCount,         \* error overlays appended by utils.showErrorMessage
    leaflet,            \* typeof L !== 'undefined'
    d3,                 \* typeof d3 !== 'undefined'
    storedPreference,   \* localStorage['workbuddies-dark-mode'], "absent" if none
    storageAvailable,   \* localStorage can be read and written without throwing
    matchMediaAvailable,\* window.matchMedia exists
    prefersDark,        \* matchMedia('(prefers-color-scheme: dark)').matches
    darkModeInit,       \* darkMode.initDarkMode has run
    html2canvasLoaded,  \* typeof html2canvas !== 'undefined'
    captures,           \* html2canvas promises of exportAsPNG not yet settled
    papa,               \* typeof Papa !== 'undefined'
    csvText,            \* the lines of data/data.csv below its header line
    legendCount,        \* text of #visible-count in the map legend (0 before the map exists)
    callStack,          \* calls of initStateViz / updateStateViz in progress
    containerPresent,   \* #state-viz-container is in the document
    svgPresent,         \* an element of class state-viz-svg is in the document
    renderThrows,       \* drawing the chart throws (inside updateStateViz's try)
    \* ---- history variables (observation only, never read by the program) ----
    issueCount,         \* number of filterData calls so far
    lastIssued,         \* criteria captured by the most recent filterData call
    lastCommit,         \* the most recent assignment of filtered by a callback
    lastInput,          \* the most recent user action
    focusRead,          \* what the bar-click handler saw when it framed the map
    focusFit,           \* the most recent viewport fit made for a focus request
    lastCleanup,        \* tab whose cleanup ran in the most recent handler
    loadCount,          \* number of assignments of raw so far
    lastThrow,          \* seq of the filter whose predicate threw most recently
    lastZoom            \* the name and outcome of the most recent zoomToSpuddy call

vars == <<raw, filtered, states, activeTab, isLoading, lastFilterApplied,
          nameInput, stateSelect, options, appState, pending, now, domPurify,
          mapReady, markers, legendCount, viewport, noData, chartBars,
          chartNoData,
          chartFallback, activePanes, isDarkMode, errorCount, leaflet, d3,
          storedPreference, storageAvailable, matchMediaAvailable,
          prefersDark, darkModeInit, html2canvasLoaded, captures,
          papa, csvText, callStack, containerPresent, svgPresent,
          renderThrows, issueCount, lastIssued, lastCommit, lastInput,
          focusRead, focusFit, lastCleanup, loadCount, lastThrow, lastZoom>>

\* What only the theme module reads or writes.
themeEnv == <<storedPreference, storageAvailable, matchMediaAvailable,
              prefersDark, darkModeInit>>

\* What only the export reads or writes.
exportEnv == <<html2canvasLoaded, captures>>

\* What only the loaders read: the CSV parser and the file on the server.
loadEnv == <<papa, csvText>>

\* What only the calls of the chart's functions, followed one by one, read or
\* write.
chartEnv == <<callStack, containerPresent, renderThrows>>

\* ---- values ----
Null == [null |-> TRUE]
Arr(s) == [items |-> s]

Rec(n, s, lat, lng) ==
    [WorkbuddyName |-> n, State |-> s, latitude |-> lat, longitude |-> lng]

\* A WorkbuddyName that is truthy but no string (a number, say): it has no
\* toLowerCase method.
NonStringName == <<"#number">>

\* The loader's transform of a latitude or longitude cell:
\* parseFloat(value), and 0 where that is NaN.
CoordinateOf(cell) ==
    CASE cell = "1" -> 1 [] cell = "2" -> 2 [] cell = "3" -> 3
      [] cell = "0" -> 0 [] OTHER -> 0

Alice == <<"A", "l">>
Bob   == <<"B", "o">>
Cara  == <<"C", "a">>

\* Record sets as loadData leaves them (values already sanitized once,
\* coordinates already numbers, 0 where the source was not numeric).
DataA == << Rec(Alice, "CA", 1, 1), Rec(Bob, "CA", 2, 2), Rec(Cara, "NY", 3, 3) >>
DataB == << Rec(Alice, "Q&amp;A", 1, 1),
            Rec(Bob, "NY", CoordinateOf(""), CoordinateOf("n/a")),
            Rec(Cara, "", 2, 2) >>
Datasets == {DataB}

\* More records than the loading overlay's threshold.
DataBig == [i \in 1..(LoadingThreshold + 1) |-> Rec(Alice, "CA", 1, 1)]

\* Records handed to dataLoader.updateGlobalData by a caller: nothing there
\* checks that a name is a string.
DataBad == << Rec(NonStringName, "NY", 1, 1), Rec(Bob, "CA", 2, 2),
              Rec(Cara, "CA", 3, 3) >>

\* Texts a user types into the name filter.
NameTexts == { <<>>, <<"A">>, <<"z">> }

TabButtons == {"map", "states"}

\* The tab panes of the page: <div id="map-tab">, <div id="states-tab">.
TabPanes == {"map", "states"}

\* The view identifiers updateActiveVisualization and exportAsPNG know.
ViewIds == {"map", "states", "network"}

Range(s) == {s[i] : i \in 1..Len(s)}

\* ---- strings ----
Lower(c) ==
    CASE c = "A" -> "a" [] c = "B" -> "b" [] c = "C" -> "c" [] OTHER -> c

ToLowerCase(s) == [i \in 1..Len(s) |-> Lower(s[i])]

Includes(s, sub) ==
    \E k \in 0..Len(s) :
        /\ k + Len(sub) <= Len(s)
        /\ SubSeq(s, k + 1, k + Len(sub)) = sub

\* The fallback branch of sanitizeString: & becomes &amp; (and so on).
Escape(s) ==
    CASE s = "Q&amp;A" -> "Q&amp;amp;A"
      [] s = "Q&amp;amp;A" -> "Q&amp;amp;amp;A"
      [] s = "Q&amp;amp;amp;A" -> "Q&amp;amp;amp;amp;A"
      [] OTHER -> s

\* DOMPurify parses the text and serialises it again, which leaves text whose
\* only special characters are entities unchanged; the fallback escapes again.
SanitizeString(s) == IF domPurify THEN s ELSE Escape(s)

\* Array.prototype.sort() order of the region strings (UTF-16 code units).
StrRank(s) ==
    CASE s = "CA" -> 1 [] s = "NY" -> 2 [] s = "Q&amp;A" -> 3 [] OTHER -> 0

\* ---- store helpers ----
\* acc followed by the values of s that are not in acc, each once, in the
\* order of first occurrence (the insertion order of a Set)
Distinct(s, acc) ==
    LET idx == [i \in 1..Len(s) |-> i]
        keep == SelectSeq(idx, LAMBDA i :
                    /\ s[i] \notin Range(acc)
                    /\ \A j \in 1..(i - 1) : s[j] # s[i])
    IN acc \o [k \in 1..Len(keep) |-> s[keep[k]]]

RECURSIVE SortStrings(_)
SortStrings(s) ==
    IF s = <<>> THEN <<>>
    ELSE LET init == SortStrings(SubSeq(s, 1, Len(s) - 1))
             x == s[Len(s)]
             k == Cardinality({i \in 1..Len(init) : StrRank(init[i]) <= StrRank(x)})
         IN SubSeq(init, 1, k) \o <<x>> \o SubSeq(init, k + 1, Len(init))

\* new Set(data.map(item => item.State).filter(state => state)), sorted
ExtractStatesUnsorted(data) ==
    Distinct(SelectSeq([i \in 1..Len(data) |-> data[i].State],
                       LAMBDA st : st # ""), <<>>)

ExtractStates(data) ==
    SortStrings(Distinct(SelectSeq([i \in 1..Len(data) |-> data[i].State],
                                   LAMBDA st : st # ""), <<>>))

\* populateStateFilter: "All States" plus one option per state
PopulateStateFilter(sts) ==
    <<"all">> \o [i \in 1..Len(sts) |-> SanitizeString(sts[i])]

\* Assigning select.value: a value that matches no option selects nothing and
\* the select then reads back as the empty string.
SetSelectValue(opts, v) == IF v \in Range(opts) THEN v ELSE ""

\* ---- filter predicate (utils.filterData, the callback's raw.filter) ----
NameMatchWrong(buddy, nameFilter) ==
    nameFilter = <<>> \/ Includes(buddy.WorkbuddyName, nameFilter)

NameMatch(buddy, nameFilter) ==
    nameFilter = <<>> \/
        (buddy.WorkbuddyName # <<>> /\
         Includes(ToLowerCase(buddy.WorkbuddyName), nameFilter))

StateMatch(buddy, stateFilter) ==
    stateFilter = "all" \/ (buddy.State # "" /\ buddy.State = stateFilter)

ApplyFilters(data, nameFilter, stateFilter) ==
    SelectSeq(data, LAMBDA buddy :
        NameMatch(buddy, nameFilter) /\ StateMatch(buddy, stateFilter))

\* The criteria filterData reads from the inputs.
ReadNameFilter(v) == ToLowerCase(v)
ReadStateFilterNoDefault(v) == v
ReadStateFilter(v) == IF v = "" THEN "all" ELSE v

\* ---- map adapter ----
InitialView == [center |-> <<20, 0>>, zoom |-> 2]

MappableAlways(buddy) == TRUE

Mappable(buddy) == buddy.latitude # 0 /\ buddy.longitude # 0

Min(S) == CHOOSE x \in S : \A y \in S : x <= y
Max(S) == CHOOSE x \in S : \A y \in S : x >= y

\* L.latLngBounds extended by every point of pts (pts not empty)
Bounds(pts) ==
    LET lats == {pts[i].latitude : i \in 1..Len(pts)}
        lngs == {pts[i].longitude : i \in 1..Len(pts)}
    IN [south |-> Min(lats), north |-> Max(lats),
        west |-> Min(lngs), east |-> Max(lngs)]

\* mapViz.updateMap: the new <<markers, legendCount, viewport, noData>>
UpdateMapNoGuard(ready, data, mk, lg, vp, nd) ==
    IF Len(data) = 0
    THEN [markers |-> <<>>, legend |-> lg, viewport |-> vp, noData |-> "shown"]
    ELSE LET newMk == SelectSeq(data, Mappable)
         IN [markers |-> newMk,
             legend |-> Len(newMk),
             viewport |-> IF Len(newMk) > 0 THEN Bounds(newMk) ELSE vp,
             noData |-> IF nd = "absent" THEN "absent" ELSE "hidden"]

\* With no record to show the function returns after the overlay, before
\* the bounds and before updateMapLegend.
UpdateMap(ready, data, mk, lg, vp, nd) ==
    IF ~ready
    THEN [markers |-> mk, legend |-> lg, viewport |-> vp, noData |-> nd]
    ELSE IF Len(data) = 0
         THEN [markers |-> <<>>, legend |-> lg, viewport |-> vp,
               noData |-> "shown"]
         ELSE LET newMk == SelectSeq(data, Mappable)
              IN [markers |-> newMk,
                  legend |-> Len(newMk),
                  viewport |-> IF Len(newMk) > 0 THEN Bounds(newMk) ELSE vp,
                  noData |-> IF nd = "absent" THEN "absent" ELSE "hidden"]

\* ---- state chart adapter ----
\* stateCounts: one entry per sanitized region of the records that have a
\* region, in the order of first occurrence, with the number of such records
CountStates(data) ==
    LET keyed == SelectSeq(data, LAMBDA buddy : buddy.State # "")
        keys == Distinct([i \in 1..Len(keyed) |->
                            SanitizeString(keyed[i].State)], <<>>)
    IN [k \in 1..Len(keys) |->
          [state |-> keys[k],
           count |-> Cardinality({i \in 1..Len(keyed) :
                                    SanitizeString(keyed[i].State) = keys[k]})]]

RECURSIVE SortByCountDesc(_)
SortByCountDesc(s) ==
    IF s = <<>> THEN <<>>
    ELSE LET init == SortByCountDesc(SubSeq(s, 1, Len(s) - 1))
             x == s[Len(s)]
             k == Cardinality({i \in 1..Len(init) : init[i].count >= x.count})
         IN SubSeq(init, 1, k) \o <<x>> \o SubSeq(init, k + 1, Len(init))

\* stateViz.updateStateViz: the new <<bars, noData>>
UpdateStateVizUnsorted(data) ==
    IF Len(data) = 0 THEN [bars |-> <<>>, noData |-> TRUE]
    ELSE LET counts == CountStates(data)
             stateData == [i \in 1..Len(counts) |->
                             [state |-> SanitizeString(counts[i].state),
                              count |-> counts[i].count]]
         IN [bars |-> stateData, noData |-> FALSE]

UpdateStateVizBlank(data) ==
    IF Len(data) = 0 THEN [bars |-> <<>>, noData |-> FALSE]
    ELSE LET counts == CountStates(data)
             stateData == [i \in 1..Len(counts) |->
                             [state |-> SanitizeString(counts[i].state),
                              count |-> counts[i].count]]
         IN [bars |-> SortByCountDesc(stateData), noData |-> FALSE]

UpdateStateViz(data) ==
    IF Len(data) = 0 THEN [bars |-> <<>>, noData |-> TRUE]
    ELSE LET counts == CountStates(data)
             stateData == [i \in 1..Len(counts) |->
                             [state |-> SanitizeString(counts[i].state),
                              count |-> counts[i].count]]
         IN [bars |-> SortByCountDesc(stateData), noData |-> FALSE]

NoCommit == [seq |-> 0, issued |-> 0, nameFilter |-> <<>>, stateFilter |-> "all",
             nameText |-> <<>>, selectValue |-> "all"]
NoFocus == [seq |-> 0, committed |-> 0]
NoFit == [seq |-> 0, issued |-> 0]
NoInput == [kind |-> "none", category |-> ""]
OtherInput == [kind |-> "other", category |-> ""]
AmbientInput == [kind |-> "ambient", category |-> ""]
KeyInput == [kind |-> "key", category |-> ""]
ToggleInput == [kind |-> "toggle", category |-> ""]
ZoomInput == [kind |-> "zoom", category |-> ""]
CleanupInput == [kind |-> "cleanup", category |-> ""]
NoZoom == [name |-> <<>>]

\* Everything but the script environment (which libraries the page loaded).
InitStore ==
    /\ raw = Null
    /\ filtered = Null
    /\ states = Null
    /\ activeTab = "map"
    /\ isLoading = FALSE
    /\ now = 0
    /\ lastFilterApplied = 0
    /\ nameInput = <<>>
    /\ stateSelect = "all"
    /\ options = <<"all">>
    /\ appState = "loading"
    /\ pending = <<>>
    /\ mapReady = FALSE
    /\ markers = <<>>
    /\ legendCount = 0
    /\ viewport = InitialView
    /\ noData = "absent"
    /\ chartBars = <<>>
    /\ chartNoData = FALSE
    /\ issueCount = 0
    /\ lastIssued = [nameFilter |-> <<>>, stateFilter |-> "all"]
    /\ lastCommit = NoCommit
    /\ lastInput = NoInput
    /\ focusRead = NoFocus
    /\ focusFit = NoFit
    /\ lastCleanup = "none"
    /\ chartFallback = FALSE
    /\ activePanes = {"map"}
    /\ isDarkMode = FALSE
    /\ errorCount = 0
    /\ loadCount = 0
    /\ lastThrow = 0
    /\ captures = 0
    /\ lastZoom = NoZoom

\* The page with the map and chart libraries loaded.
\* The theme module after initDarkMode, for a visitor without a stored
\* preference whose system prefers light.
InitThemeLight ==
    /\ storedPreference = "absent"
    /\ storageAvailable = TRUE
    /\ matchMediaAvailable = TRUE
    /\ prefersDark = FALSE
    /\ darkModeInit = TRUE

\* Where the records are given as the loader leaves them, the file is not
\* read.
InitParsed ==
    /\ papa = TRUE
    /\ csvText = <<>>

\* Where the chart is drawn in one step, its container is on the page and no
\* call is followed on its own.
InitChartWhole ==
    /\ callStack = <<>>
    /\ containerPresent = TRUE
    /\ svgPresent = FALSE
    /\ renderThrows = FALSE

Init ==
    /\ InitStore
    /\ InitThemeLight
    /\ InitParsed
    /\ InitChartWhole
    /\ domPurify \in BOOLEAN
    /\ html2canvasLoaded = TRUE
    /\ leaflet = TRUE
    /\ d3 = TRUE

\* ---- utils.showAppLoading(show): the value it gives isLoading ----
ShowAppLoadingNeverHides(show) == TRUE

ShowAppLoading(show) == show

\* ---- utils.filterData: the synchronous part ----
\* nm and sel are the input values at the time of the call.
FilterData(nm, sel, isFocus) ==
    /\ issueCount < MaxIssue
    /\ lastFilterApplied' = now
    /\ isLoading' = IF filtered # Null /\ Len(filtered.items) > LoadingThreshold
                    THEN ShowAppLoading(TRUE) ELSE isLoading
    /\ pending' = Append(pending,
                     [token |-> now,
                      nameFilter |-> ReadNameFilter(nm),
                      stateFilter |-> ReadStateFilter(sel),
                      seq |-> issueCount + 1,        \* history
                      nameText |-> nm,               \* history
                      selectValue |-> sel,           \* history
                      focus |-> isFocus])            \* history
    /\ issueCount' = issueCount + 1
    /\ lastIssued' = [nameFilter |-> ReadNameFilter(nm),
                      stateFilter |-> ReadStateFilter(sel)]

\* ---- utils.updateActiveVisualization on the tab `tab` with data `data` ----
UpdateActiveVisualizationSkipped(tab, data) ==
    UNCHANGED <<markers, legendCount, viewport, noData, chartBars, chartNoData,
                chartFallback, svgPresent>>

UpdateActiveVisualizationBoth(tab, data) ==
    /\ LET r == UpdateMap(mapReady, data, markers, legendCount, viewport,
                          noData)
       IN /\ markers' = r.markers
          /\ legendCount' = r.legend
          /\ viewport' = r.viewport
          /\ noData' = r.noData
    /\ IF d3
       THEN LET r == UpdateStateViz(data)
            IN /\ chartBars' = r.bars
               /\ chartNoData' = r.noData
               /\ UNCHANGED chartFallback
               /\ svgPresent' = TRUE
       ELSE /\ chartFallback' = TRUE
            /\ svgPresent' = FALSE
            /\ UNCHANGED <<chartBars, chartNoData>>

UpdateActiveVisualization(tab, data) ==
    /\ IF tab = "map"
       THEN LET r == UpdateMap(mapReady, data, markers, legendCount, viewport,
                               noData)
            IN /\ markers' = r.markers
               /\ legendCount' = r.legend
               /\ viewport' = r.viewport
               /\ noData' = r.noData
       ELSE UNCHANGED <<markers, legendCount, viewport, noData>>
    /\ IF tab = "states"
       THEN IF d3
            THEN LET r == UpdateStateViz(data)
                 IN /\ chartBars' = r.bars
                    /\ chartNoData' = r.noData
                    /\ UNCHANGED chartFallback
                    /\ svgPresent' = TRUE
            ELSE \* showD3NotAvailableMessage
                 /\ chartFallback' = TRUE
                 /\ svgPresent' = FALSE
                 /\ UNCHANGED <<chartBars, chartNoData>>
       ELSE UNCHANGED <<chartBars, chartNoData, chartFallback, svgPresent>>

\* ---- the clock ----
Tick ==
    /\ now < MaxClock
    /\ now' = now + 1
    /\ UNCHANGED <<raw, filtered, states, activeTab, isLoading,
                   lastFilterApplied, nameInput, stateSelect, options,
                   appState, pending, domPurify, mapReady, markers,
                   legendCount, viewport,
                   noData, chartBars, chartNoData, issueCount, lastIssued,
                   lastCommit, lastInput, focusRead, focusFit, lastCleanup,
                   chartFallback, svgPresent, activePanes, isDarkMode,
                   errorCount,
                   leaflet, d3, themeEnv, exportEnv, loadEnv, chartEnv,
                   lastZoom, loadCount, lastThrow>>

\* ---- utils.switchTab ----
SwitchTabNoRender(tabId, data) ==
    /\ activeTab' = tabId
    /\ activePanes' = {tabId} \cap TabPanes
    /\ UpdateActiveVisualizationSkipped(tabId, data)

SwitchTab(tabId, data) ==
    /\ activeTab' = tabId
    /\ activePanes' = {tabId} \cap TabPanes
    /\ UpdateActiveVisualization(tabId, data)

\* ---- utils.loadData: what it stores for the parsed records d ----
LoadData(d) ==
    /\ raw' = Arr(d)
    /\ filtered' = Arr(d)
    /\ states' = Arr(ExtractStates(d))
    /\ options' = PopulateStateFilter(ExtractStates(d))
       \* removing the selected option, or inserting options while nothing
       \* is selected, leaves the first option selected
    /\ stateSelect' = IF Len(options) > 1 \/ Len(ExtractStates(d)) > 0
                      THEN "all" ELSE stateSelect
    /\ loadCount' = loadCount + 1

\* ---- app.initializeApp, the loader succeeded with the records d ----
InitializeApp(d) ==
    /\ appState = "loading"
    /\ darkModeInit
    /\ Len(d) > 0
    /\ leaflet
    /\ LoadData(d)
       \* initVisualizations: initMap, initStateViz; then switchTab('map')
    /\ mapReady' = TRUE
       \* createMapLegend writes 0 into the new legend
    /\ LET r == UpdateMap(TRUE, d, markers, 0, InitialView, noData)
       IN /\ markers' = r.markers
          /\ legendCount' = r.legend
          /\ viewport' = r.viewport
          /\ noData' = r.noData
    /\ IF d3
       THEN LET c == UpdateStateViz(d)
            IN /\ chartBars' = c.bars
               /\ chartNoData' = c.noData
               /\ UNCHANGED chartFallback
               /\ svgPresent' = TRUE
       ELSE /\ chartFallback' = TRUE
            /\ svgPresent' = FALSE
            /\ UNCHANGED <<chartBars, chartNoData>>
    /\ activeTab' = "map"
    /\ activePanes' = {"map"} \cap TabPanes
    /\ appState' = "ready"
    /\ lastCleanup' = "none"
    /\ UNCHANGED <<isLoading, lastFilterApplied, nameInput, pending, now,
                   domPurify, issueCount, lastIssued, lastCommit, lastInput,
                   focusRead, focusFit, isDarkMode, errorCount, leaflet, d3,
                   themeEnv, exportEnv, loadEnv, chartEnv, lastZoom,
                   lastThrow>>

\* ---- app.initializeApp, the map library is missing: initMap throws ----
InitializeAppMapThrows(d) ==
    /\ appState = "loading"
    /\ darkModeInit
    /\ Len(d) > 0
    /\ ~leaflet
    /\ LoadData(d)
       \* L.map is a ReferenceError; initVisualizations does not catch it, so
       \* initStateViz, setupEventListeners and switchTab are skipped
    /\ errorCount' = errorCount + 1
    /\ appState' = "crashed"
    /\ UNCHANGED <<activeTab, isLoading, lastFilterApplied, nameInput, pending,
                   now, domPurify, mapReady, markers, legendCount, viewport,
                   noData,
                   chartBars, chartNoData, chartFallback, svgPresent,
                   activePanes,
                   isDarkMode, leaflet, d3, themeEnv, exportEnv, loadEnv,
                   chartEnv, lastZoom, issueCount, lastIssued, lastCommit,
                   lastInput, focusRead, focusFit, lastCleanup, lastThrow>>

\* ---- app.initializeApp, the loader returned no records ----
InitializeAppNoRecords ==
    /\ appState = "loading"
    /\ darkModeInit
    /\ LoadData(<<>>)
       \* "No data loaded" is thrown and handled by handleError
    /\ errorCount' = errorCount + 1
    /\ appState' = "failed"
    /\ UNCHANGED <<activeTab, isLoading, lastFilterApplied, nameInput, pending,
                   now, domPurify, mapReady, markers, legendCount, viewport,
                   noData,
                   chartBars, chartNoData, chartFallback, svgPresent,
                   activePanes,
                   isDarkMode, leaflet, d3, themeEnv, exportEnv, loadEnv,
                   chartEnv, lastZoom, issueCount, lastIssued, lastCommit,
                   lastInput, focusRead, focusFit, lastCleanup, lastThrow>>

\* ---- app.initializeApp, the loader threw ----
InitializeAppFails ==
    /\ appState = "loading"
    /\ darkModeInit
    /\ errorCount' = errorCount + 1
    /\ appState' = "failed"
    /\ UNCHANGED <<raw, filtered, states, activeTab, isLoading,
                   lastFilterApplied, nameInput, stateSelect, options,
                   pending, now, domPurify, mapReady, markers, legendCount,
                   viewport,
                   noData, chartBars, chartNoData, issueCount, lastIssued,
                   lastCommit, lastInput, focusRead, focusFit, lastCleanup,
                   chartFallback, svgPresent, activePanes, isDarkMode,
                   leaflet, d3, themeEnv, exportEnv, loadEnv, chartEnv,
                   lastZoom,
                   loadCount, lastThrow>>

\* ---- 'input' listener of the name filter ----
NameInput(v) ==
    /\ appState = "ready"
    /\ v # nameInput
    /\ nameInput' = v
    /\ FilterData(v, stateSelect, FALSE)
    /\ lastInput' = KeyInput
    /\ lastCleanup' = "none"
    /\ UNCHANGED <<raw, filtered, states, activeTab, stateSelect, options,
                   appState, now, domPurify, mapReady, markers, legendCount,
                   viewport,
                   noData, chartBars, chartNoData, lastCommit, focusRead,
                   focusFit, chartFallback, svgPresent, activePanes,
                   isDarkMode, errorCount,
                   leaflet, d3, themeEnv, exportEnv, loadEnv, chartEnv,
                   lastZoom, loadCount, lastThrow>>

\* ---- the clear button added to the name filter ----
NameClearButton ==
    /\ appState = "ready"
    /\ nameInput # <<>>
    /\ nameInput' = <<>>
    /\ FilterData(<<>>, stateSelect, FALSE)
    /\ lastInput' = OtherInput
    /\ lastCleanup' = "none"
    /\ UNCHANGED <<raw, filtered, states, activeTab, stateSelect, options,
                   appState, now, domPurify, mapReady, markers, legendCount,
                   viewport,
                   noData, chartBars, chartNoData, lastCommit, focusRead,
                   focusFit, chartFallback, svgPresent, activePanes,
                   isDarkMode, errorCount,
                   leaflet, d3, themeEnv, exportEnv, loadEnv, chartEnv,
                   lastZoom, loadCount, lastThrow>>

\* ---- 'change' listener of the state filter ----
StateSelectChange(v) ==
    /\ appState = "ready"
    /\ v \in Range(options)
    /\ v # stateSelect
    /\ stateSelect' = v
    /\ FilterData(nameInput, v, FALSE)
    /\ lastInput' = OtherInput
    /\ lastCleanup' = "none"
    /\ UNCHANGED <<raw, filtered, states, activeTab, nameInput, options,
                   appState, now, domPurify, mapReady, markers, legendCount,
                   viewport,
                   noData, chartBars, chartNoData, lastCommit, focusRead,
                   focusFit, chartFallback, svgPresent, activePanes,
                   isDarkMode, errorCount,
                   leaflet, d3, themeEnv, exportEnv, loadEnv, chartEnv,
                   lastZoom, loadCount, lastThrow>>

\* ---- darkMode.clearAllFilters (the Clear Filters button) ----
ClearAllFilters ==
    /\ darkModeInit
    /\ nameInput' = <<>>
    /\ stateSelect' = SetSelectValue(options, "")
    /\ FilterData(<<>>, SetSelectValue(options, ""), FALSE)
    /\ lastInput' = OtherInput
    /\ lastCleanup' = "none"
    /\ UNCHANGED <<raw, filtered, states, activeTab, options, appState, now,
                   domPurify, mapReady, markers, legendCount, viewport,
                   noData, chartBars,
                   chartNoData, lastCommit, focusRead, focusFit,
                   chartFallback, svgPresent, activePanes, isDarkMode,
                   errorCount,
                   leaflet, d3, themeEnv, exportEnv, loadEnv, chartEnv,
                   lastZoom, loadCount, lastThrow>>

\* ---- mapViz.resetFilters (the Reset Filters button of the no-data overlay) ----
ResetFilters ==
    /\ appState = "ready"
    /\ activeTab = "map"
    /\ noData = "shown"
    /\ nameInput' = <<>>
    /\ stateSelect' = SetSelectValue(options, "all")
    /\ FilterData(<<>>, SetSelectValue(options, "all"), FALSE)
    /\ lastInput' = OtherInput
    /\ lastCleanup' = "none"
    /\ UNCHANGED <<raw, filtered, states, activeTab, options, appState, now,
                   domPurify, mapReady, markers, legendCount, viewport,
                   noData, chartBars,
                   chartNoData, lastCommit, focusRead, focusFit,
                   chartFallback, svgPresent, activePanes, isDarkMode,
                   errorCount,
                   leaflet, d3, themeEnv, exportEnv, loadEnv, chartEnv,
                   lastZoom, loadCount, lastThrow>>

\* ---- app.cleanupCurrentTab then utils.switchTab (click on a tab button) ----
TabClick(t) ==
    /\ appState = "ready"
    /\ lastCleanup' = activeTab
    /\ SwitchTab(t, filtered.items)
    /\ lastInput' = OtherInput
    /\ UNCHANGED <<raw, filtered, states, isLoading, lastFilterApplied,
                   nameInput, stateSelect, options, appState, pending, now,
                   domPurify, mapReady, issueCount, lastIssued, lastCommit,
                   focusRead, focusFit, isDarkMode, errorCount, leaflet, d3,
                   themeEnv, exportEnv, loadEnv, chartEnv, lastZoom,
                   loadCount, lastThrow>>

\* ---- click on bar i of the state chart (the focus request) ----
\* The points the handler extends its bounds with.
FocusPoints(data, category) ==
    SelectSeq(SelectSeq(data, LAMBDA buddy : buddy.State = category), Mappable)

BarClick(i) ==
    /\ appState = "ready"
    /\ activeTab = "states"
    /\ i \in 1..Len(chartBars)
    /\ LET d == chartBars[i]
           sel == SetSelectValue(options, d.state)
           \* switchTab('map') renders the map from the current filtered
           r == UpdateMap(mapReady, filtered.items, markers, legendCount,
                          viewport, noData)
           pts == FocusPoints(filtered.items, d.state)
           fits == mapReady /\ Len(pts) > 0
       IN /\ stateSelect' = sel
          /\ FilterData(nameInput, sel, TRUE)
          /\ activeTab' = "map"
          /\ activePanes' = {"map"} \cap TabPanes
          /\ markers' = r.markers
          /\ legendCount' = r.legend
          /\ noData' = r.noData
          /\ viewport' = IF fits THEN Bounds(pts) ELSE r.viewport
          /\ focusRead' = [seq |-> issueCount + 1, committed |-> lastCommit.seq]
          /\ focusFit' = IF fits
                         THEN [seq |-> issueCount + 1,
                         issued |-> issueCount + 1]
                         ELSE focusFit
          /\ lastInput' = [kind |-> "focus", category |-> d.state]
    /\ lastCleanup' = "none"
    /\ UNCHANGED <<raw, filtered, states, nameInput, options, appState, now,
                   domPurify, mapReady, chartBars, chartNoData, lastCommit,
                   chartFallback, svgPresent, isDarkMode, errorCount, leaflet,
                   d3, themeEnv, exportEnv, loadEnv, chartEnv, lastZoom,
                   loadCount, lastThrow>>

\* ---- the deferred callback of filterData ----
TokenCurrentInverted(op) == op.token # lastFilterApplied

TokenCurrent(op) == op.token = lastFilterApplied

\* raw.filter throws as soon as the name match of one record cannot be
\* evaluated: a non-empty name filter and a name without toLowerCase.
PredicateThrows(data, nameFilter) ==
    /\ nameFilter # <<>>
    /\ \E i \in 1..Len(data) : data[i].WorkbuddyName = NonStringName

\* The callback's assignment: window.WorkBuddies.data.filtered = raw.filter(...)
CommitFilteredIntoRaw(result) ==
    /\ filtered' = Arr(result)
    /\ raw' = Arr(result)

CommitFiltered(result) ==
    /\ filtered' = Arr(result)
    /\ UNCHANGED raw

RunCallback ==
    /\ pending # <<>>
    /\ LET op == Head(pending)
       IN /\ pending' = Tail(pending)
          /\ isLoading' = ShowAppLoading(FALSE)   \* finally
          /\ IF TokenCurrent(op) /\ raw # Null
             THEN IF PredicateThrows(raw.items, op.nameFilter)
                  THEN \* catch: console.error('Error filtering data')
                       /\ lastThrow' = op.seq
                       /\ UNCHANGED <<raw, filtered, markers, legendCount,
                                      viewport,
                                      noData, chartBars, chartNoData,
                                      chartFallback, svgPresent, lastCommit,
                                      focusFit>>
                  ELSE LET result == ApplyFilters(raw.items, op.nameFilter,
                                                  op.stateFilter)
                           r == UpdateMap(mapReady, result, markers,
                                          legendCount, viewport, noData)
                       IN /\ CommitFiltered(result)
                          /\ UpdateActiveVisualization(activeTab, result)
                          /\ lastCommit' = [seq |-> op.seq,
                                            issued |-> issueCount,
                                            nameFilter |-> op.nameFilter,
                                            stateFilter |-> op.stateFilter,
                                            nameText |-> op.nameText,
                                            selectValue |-> op.selectValue]
                          /\ focusFit' = IF /\ op.focus
                                            /\ activeTab = "map"
                                            /\ mapReady
                                            /\ Len(r.markers) > 0
                                         THEN [seq |-> op.seq,
                                               issued |-> issueCount]
                                         ELSE focusFit
                          /\ UNCHANGED lastThrow
             ELSE UNCHANGED <<raw, filtered, markers, legendCount, viewport,
             noData,
                              chartBars, chartNoData, chartFallback, svgPresent,
                              lastCommit, focusFit, lastThrow>>
    /\ lastCleanup' = "none"
    /\ UNCHANGED <<states, activeTab, lastFilterApplied, nameInput,
                   stateSelect, options, appState, now, domPurify, mapReady,
                   issueCount, lastIssued, lastInput, focusRead, activePanes,
                   isDarkMode, errorCount, leaflet, d3, themeEnv, exportEnv,
                   loadEnv, chartEnv, lastZoom, loadCount>>

\* ---- a call of utils.switchTab(v) by another script (window.switchTab) ----
SwitchArgs == ViewIds \cup {"other"}

SwitchTabCall(v) ==
    /\ appState = "ready"
    /\ SwitchTab(v, filtered.items)
    /\ lastInput' = OtherInput
    /\ lastCleanup' = "none"
    /\ UNCHANGED <<raw, filtered, states, isLoading, lastFilterApplied,
                   nameInput, stateSelect, options, appState, pending, now,
                   domPurify, mapReady, issueCount, lastIssued, lastCommit,
                   focusRead, focusFit, isDarkMode, errorCount, leaflet, d3,
                   themeEnv, exportEnv, loadEnv, chartEnv, lastZoom,
                   loadCount, lastThrow>>

\* ---- the theme module (darkMode) ----
StoredValues == {"true", "false", "absent", "malformed"}

BoolText(flag) == IF flag THEN "true" ELSE "false"

\* safeGetStorageItem: the stored value if it can be read and is 'true' or
\* 'false', else "null"
SafeGetStorageItemUnguarded ==
    IF storedPreference \in {"true", "false"}
    THEN storedPreference ELSE "null"

SafeGetStorageItem ==
    IF storageAvailable /\ storedPreference \in {"true", "false"}
    THEN storedPreference ELSE "null"

\* safeSetStorageItem(value): what the store holds afterwards
SafeSetStorageItemSkipped(value) == storedPreference

SafeSetStorageItem(value) ==
    IF storageAvailable /\ value \in {"true", "false"}
    THEN value ELSE storedPreference

\* enableDarkMode(savePreference) for flag = TRUE, disableDarkMode(savePreference)
\* for flag = FALSE: set the flag, save if asked to, then updateMapTheme
\* (redraws the map if there is one) and refreshVisualizations (redraws the
\* active view).
SetDarkMode(flag, savePreference) ==
    /\ isDarkMode' = flag
    /\ storedPreference' = IF savePreference
                           THEN SafeSetStorageItem(BoolText(flag))
                           ELSE storedPreference
    /\ LET data == IF filtered = Null THEN <<>> ELSE filtered.items
           r == UpdateMap(mapReady, data, markers, legendCount, viewport,
                          noData)
       IN /\ markers' = r.markers
          /\ legendCount' = r.legend
          /\ viewport' = r.viewport
          /\ noData' = r.noData
          /\ IF activeTab = "states"
             THEN IF d3
                  THEN /\ chartBars' = UpdateStateViz(data).bars
                       /\ chartNoData' = UpdateStateViz(data).noData
                       /\ UNCHANGED chartFallback
                       /\ svgPresent' = TRUE
                  ELSE /\ chartFallback' = TRUE
                       /\ svgPresent' = FALSE
                       /\ UNCHANGED <<chartBars, chartNoData>>
             ELSE UNCHANGED <<chartBars, chartNoData, chartFallback,
             svgPresent>>

\* ---- darkMode.initDarkMode (DOMContentLoaded, before the loader returns) ----
InitDarkMode ==
    /\ ~darkModeInit
    /\ darkModeInit' = TRUE
    /\ IF SafeGetStorageItem = "true" THEN SetDarkMode(TRUE, FALSE)
       ELSE IF SafeGetStorageItem = "false" THEN SetDarkMode(FALSE, FALSE)
       ELSE IF matchMediaAvailable /\ prefersDark THEN SetDarkMode(TRUE, FALSE)
       ELSE UNCHANGED <<isDarkMode, storedPreference, markers, legendCount,
       viewport,
                        noData, chartBars, chartNoData, chartFallback,
                        svgPresent>>
    /\ lastInput' = OtherInput
    /\ lastCleanup' = "none"
    /\ UNCHANGED <<raw, filtered, states, activeTab, isLoading,
                   lastFilterApplied, nameInput, stateSelect, options,
                   appState, pending, now, domPurify, mapReady, activePanes,
                   errorCount, leaflet, d3, exportEnv, loadEnv, chartEnv,
                   lastZoom, storageAvailable,
                   matchMediaAvailable, prefersDark, issueCount, lastIssued,
                   lastCommit, focusRead, focusFit, loadCount, lastThrow>>

\* ---- darkMode.toggleDarkMode (click on the toggle initDarkMode created) ----
ToggleDarkModeRefilters ==
    /\ darkModeInit
    /\ SetDarkMode(~isDarkMode, TRUE)
    /\ FilterData(nameInput, stateSelect, FALSE)
    /\ lastInput' = ToggleInput
    /\ lastCleanup' = "none"
    /\ UNCHANGED <<raw, filtered, states, activeTab, nameInput, stateSelect,
                   options, appState, now, domPurify, mapReady, activePanes,
                   errorCount, leaflet, d3, exportEnv, loadEnv, chartEnv,
                   lastZoom, storageAvailable,
                   matchMediaAvailable, prefersDark, darkModeInit, lastCommit,
                   focusRead, focusFit, loadCount, lastThrow>>

ToggleDarkMode ==
    /\ darkModeInit
    /\ SetDarkMode(~isDarkMode, TRUE)
    /\ lastInput' = ToggleInput
    /\ lastCleanup' = "none"
    /\ UNCHANGED <<raw, filtered, states, activeTab, isLoading,
                   lastFilterApplied, nameInput, stateSelect, options,
                   appState, pending, now, domPurify, mapReady, activePanes,
                   errorCount, leaflet, d3, exportEnv, loadEnv, chartEnv,
                   lastZoom, storageAvailable,
                   matchMediaAvailable, prefersDark, darkModeInit, issueCount,
                   lastIssued, lastCommit, focusRead, focusFit, loadCount,
                   lastThrow>>

\* ---- the system colour scheme changes; the 'change' listener of the media
\* query, if initDarkMode installed one, follows it while no preference is
\* stored ----
AmbientChange ==
    /\ matchMediaAvailable
    /\ prefersDark' = ~prefersDark
    /\ IF darkModeInit /\ SafeGetStorageItem = "null"
       THEN SetDarkMode(~prefersDark, FALSE)
       ELSE UNCHANGED <<isDarkMode, storedPreference, markers, legendCount,
       viewport,
                        noData, chartBars, chartNoData, chartFallback,
                        svgPresent>>
    /\ lastInput' = AmbientInput
    /\ lastCleanup' = "none"
    /\ UNCHANGED <<raw, filtered, states, activeTab, isLoading,
                   lastFilterApplied, nameInput, stateSelect, options,
                   appState, pending, now, domPurify, mapReady, activePanes,
                   errorCount, leaflet, d3, exportEnv, loadEnv, chartEnv,
                   lastZoom, storageAvailable,
                   matchMediaAvailable, darkModeInit, issueCount, lastIssued,
                   lastCommit, focusRead, focusFit, loadCount, lastThrow>>

\* ---- the debounced 'resize' listener ----
Resize ==
    /\ appState = "ready"
    /\ UpdateActiveVisualization(activeTab, filtered.items)
    /\ lastInput' = OtherInput
    /\ lastCleanup' = "none"
    /\ UNCHANGED <<raw, filtered, states, activeTab, isLoading,
                   lastFilterApplied, nameInput, stateSelect, options,
                   appState, pending, now, domPurify, mapReady, activePanes,
                   isDarkMode, errorCount, leaflet, d3, themeEnv, exportEnv,
                   loadEnv, chartEnv, lastZoom, issueCount, lastIssued,
                   lastCommit, focusRead, focusFit, loadCount, lastThrow>>

\* ---- utils.exportAsPNG (the Export button) ----
MaxCaptures == 1   \* at most MaxCaptures unsettled captures at a time

\* The elements exportAsPNG looks up that the page has: #map-container and
\* #state-viz-container; there is no #network-container.
ExportContainers == {"map", "states"}

\* What the user is told: the alert shown, or the download of the image.
ExportInput(report) == [kind |-> "export", category |-> report]

\* The synchronous part: the alert it shows, "preparing" if it goes on to
\* call html2canvas.
ExportReport(tab) ==
    IF ~html2canvasLoaded THEN "library not loaded"
    ELSE IF tab \notin ViewIds THEN "cannot export"
    ELSE IF tab \notin ExportContainers THEN "container not found"
    ELSE "preparing"

ExportAsPNGShowsLoading ==
    /\ appState = "ready"
    /\ ExportReport(activeTab) = "preparing" => captures < MaxCaptures
    /\ captures' = IF ExportReport(activeTab) = "preparing"
                   THEN captures + 1 ELSE captures
    /\ isLoading' = TRUE
    /\ lastInput' = ExportInput(ExportReport(activeTab))
    /\ lastCleanup' = "none"
    /\ UNCHANGED <<raw, filtered, states, activeTab,
                   lastFilterApplied, nameInput, stateSelect, options,
                   appState, pending, now, domPurify, mapReady, markers,
                   legendCount,
                   viewport, noData, chartBars, chartNoData, chartFallback,
                   svgPresent,
                   activePanes, isDarkMode, errorCount, leaflet, d3, themeEnv,
                   html2canvasLoaded, loadEnv, chartEnv, lastZoom, issueCount,
                   lastIssued,
                   lastCommit,
                   focusRead, focusFit, loadCount, lastThrow>>

ExportAsPNG ==
    /\ appState = "ready"
    /\ ExportReport(activeTab) = "preparing" => captures < MaxCaptures
    /\ captures' = IF ExportReport(activeTab) = "preparing"
                   THEN captures + 1 ELSE captures
    /\ lastInput' = ExportInput(ExportReport(activeTab))
    /\ lastCleanup' = "none"
    /\ UNCHANGED <<raw, filtered, states, activeTab, isLoading,
                   lastFilterApplied, nameInput, stateSelect, options,
                   appState, pending, now, domPurify, mapReady, markers,
                   legendCount,
                   viewport, noData, chartBars, chartNoData, chartFallback,
                   svgPresent,
                   activePanes, isDarkMode, errorCount, leaflet, d3, themeEnv,
                   html2canvasLoaded, loadEnv, chartEnv, lastZoom, issueCount,
                   lastIssued,
                   lastCommit,
                   focusRead, focusFit, loadCount, lastThrow>>

\* ---- the html2canvas promise settles: .then (the image is downloaded; a
\* throw in there, as of toDataURL on a tainted canvas, goes to .catch) or
\* .catch (alert 'Failed to export') ----
ExportSettles(ok) ==
    /\ captures > 0
    /\ captures' = captures - 1
    /\ lastInput' = ExportInput(IF ok THEN "saved" ELSE "failed")
    /\ lastCleanup' = "none"
    /\ UNCHANGED <<raw, filtered, states, activeTab, isLoading,
                   lastFilterApplied, nameInput, stateSelect, options,
                   appState, pending, now, domPurify, mapReady, markers,
                   legendCount,
                   viewport, noData, chartBars, chartNoData, chartFallback,
                   svgPresent,
                   activePanes, isDarkMode, errorCount, leaflet, d3, themeEnv,
                   html2canvasLoaded, loadEnv, chartEnv, lastZoom, issueCount,
                   lastIssued,
                   lastCommit,
                   focusRead, focusFit, loadCount, lastThrow>>

\* ---- dataLoader.updateGlobalData(d), called by loadCSVFile or directly ----
MaxLoads == 2      \* at most MaxLoads assignments of raw in a run

UpdateGlobalData(d) ==
    /\ appState = "ready"
    /\ loadCount < MaxLoads
    /\ LoadData(d)
       \* updateUI: populateStateFilter, updateActiveVisualization
    /\ UpdateActiveVisualization(activeTab, d)
    /\ lastInput' = OtherInput
    /\ lastCleanup' = "none"
    /\ UNCHANGED <<activeTab, isLoading, lastFilterApplied, nameInput,
                   appState, pending, now, domPurify, mapReady, activePanes,
                   isDarkMode, errorCount, leaflet, d3, themeEnv, exportEnv,
                   loadEnv, chartEnv, lastZoom, issueCount, lastIssued,
                   lastCommit, focusRead, focusFit, lastThrow>>

\* ---- mapViz.zoomToSpuddy(buddyName) ----
\* flyTo([latitude, longitude], 12)
ZoomView(buddy) == [center |-> <<buddy.latitude, buddy.longitude>>, zoom |-> 12]

\* data.find(b => b.WorkbuddyName === buddyName): the first match
FoundAt(data, buddyName) ==
    {k \in 1..Len(data) : data[k].WorkbuddyName = buddyName}

\* buddy && buddy.latitude && buddy.longitude
ZoomTarget(data, buddyName) ==
    /\ FoundAt(data, buddyName) # {}
    /\ LET buddy == data[Min(FoundAt(data, buddyName))]
       IN buddy.latitude # 0 /\ buddy.longitude # 0

ZoomToSpuddy(buddyName) ==
    /\ appState = "ready"
    /\ mapReady
    /\ viewport' = IF ZoomTarget(filtered.items, buddyName)
                   THEN ZoomView(filtered.items[
                            Min(FoundAt(filtered.items, buddyName))])
                   ELSE viewport
    /\ lastZoom' = [name |-> buddyName]
    /\ lastInput' = ZoomInput
    /\ lastCleanup' = "none"
    /\ UNCHANGED <<raw, filtered, states, activeTab, isLoading,
                   lastFilterApplied, nameInput, stateSelect, options,
                   appState, pending, now, domPurify, mapReady, markers,
                   legendCount, noData, chartBars, chartNoData, chartFallback,
                   svgPresent,
                   activePanes, isDarkMode, errorCount, leaflet, d3, themeEnv,
                   exportEnv, loadEnv, chartEnv, issueCount, lastIssued,
                   lastCommit, focusRead, focusFit, loadCount, lastThrow>>

\* ---- click on 'Zoom To' in the popup of marker i ----
ZoomClick(i) ==
    /\ activeTab = "map"
    /\ i \in 1..Len(markers)
    /\ ZoomToSpuddy(markers[i].WorkbuddyName)

\* ---- window.zoomToSpuddy(name), called by another script ----
ZoomNames == {Alice, Bob, <<"z">>}

ZoomToSpuddyCall(buddyName) == ZoomToSpuddy(buddyName)

\* ---- stateViz.cleanupStateViz: "No specific cleanup needed" ----
CleanupStateVizClears ==
    /\ chartBars' = <<>>
    /\ chartNoData' = ~chartNoData
    /\ UNCHANGED <<chartFallback, svgPresent>>

CleanupStateViz == UNCHANGED <<chartBars, chartNoData, chartFallback, svgPresent>>

\* ---- app.cleanupCurrentTab, called by another script
\* (window.cleanupCurrentTab) at any time ----
CleanupCurrentTab ==
    /\ IF activeTab = "states" THEN CleanupStateViz
       ELSE UNCHANGED <<chartBars, chartNoData, chartFallback, svgPresent>>
    /\ lastCleanup' = activeTab
    /\ lastInput' = CleanupInput
    /\ UNCHANGED <<raw, filtered, states, activeTab, isLoading,
                   lastFilterApplied, nameInput, stateSelect, options,
                   appState, pending, now, domPurify, mapReady, markers,
                   legendCount, viewport, noData, activePanes, isDarkMode,
                   errorCount, leaflet, d3, themeEnv, exportEnv, loadEnv,
                   chartEnv, issueCount, lastIssued, lastCommit, focusRead,
                   focusFit, loadCount, lastThrow, lastZoom>>

\* ---- window.cleanupStateViz(), called by another script at any time ----
CleanupStateVizCall ==
    /\ CleanupStateViz
    /\ lastCleanup' = "states"
    /\ lastInput' = CleanupInput
    /\ UNCHANGED <<raw, filtered, states, activeTab, isLoading,
                   lastFilterApplied, nameInput, stateSelect, options,
                   appState, pending, now, domPurify, mapReady, markers,
                   legendCount, viewport, noData, activePanes, isDarkMode,
                   errorCount, leaflet, d3, themeEnv, exportEnv, loadEnv,
                   chartEnv, issueCount, lastIssued, lastCommit, focusRead,
                   focusFit, loadCount, lastThrow, lastZoom>>

\* ---- stateViz.initStateViz and stateViz.updateStateViz, call by call ----
MaxDepth == 5      \* a call nested deeper than MaxDepth is not followed

Frame(fn, pc) == [fn |-> fn, pc |-> pc]

\* The running function calls fn and waits for it.
Call(fn) ==
    /\ Len(callStack) < MaxDepth
    /\ callStack' = Append([callStack EXCEPT ![Len(callStack)].pc = "called"],
                           Frame(fn, "start"))

Return == callStack' = SubSeq(callStack, 1, Len(callStack) - 1)

\* showD3NotAvailableMessage: the content of the container, if there is one,
\* is replaced by the message
ShowD3NotAvailableMessage ==
    IF containerPresent
    THEN /\ chartFallback' = TRUE
         /\ svgPresent' = FALSE
         /\ chartBars' = <<>>
         /\ chartNoData' = FALSE
    ELSE UNCHANGED <<chartFallback, svgPresent, chartBars, chartNoData>>

\* d3.select('#state-viz-container').append('svg'): there is an svg of class
\* state-viz-svg afterwards iff the selection is not empty
AppendSvgNever(present) == FALSE

AppendSvg(present) == present

\* window.initStateViz() or window.updateStateViz(), or a handler's call
ChartCall(fn) ==
    /\ callStack = <<>>
    /\ callStack' = <<Frame(fn, "start")>>
    /\ UNCHANGED <<raw, filtered, states, activeTab, isLoading,
                   lastFilterApplied, nameInput, stateSelect, options,
                   appState, pending, now, domPurify, mapReady, markers,
                   legendCount, viewport, noData, chartBars, chartNoData,
                   chartFallback, svgPresent, containerPresent, renderThrows,
                   activePanes, isDarkMode, errorCount, leaflet, d3, themeEnv,
                   exportEnv, loadEnv, issueCount, lastIssued, lastCommit,
                   lastInput, focusRead, focusFit, lastCleanup, loadCount,
                   lastThrow, lastZoom>>

\* initStateViz up to its call of updateStateViz, or to its return
InitStateVizBody ==
    /\ callStack # <<>>
    /\ callStack[Len(callStack)] = Frame("init", "start")
    /\ IF ~d3
       THEN /\ ShowD3NotAvailableMessage
            /\ Return
       ELSE \* container.innerHTML = ''; append('svg'); this.updateStateViz()
            /\ svgPresent' = AppendSvg(containerPresent)
            /\ chartFallback' = IF containerPresent THEN FALSE
                                ELSE chartFallback
            /\ chartBars' = IF containerPresent THEN <<>> ELSE chartBars
            /\ chartNoData' = IF containerPresent THEN FALSE ELSE chartNoData
            /\ Call("update")
    /\ UNCHANGED <<raw, filtered, states, activeTab, isLoading,
                   lastFilterApplied, nameInput, stateSelect, options,
                   appState, pending, now, domPurify, mapReady, markers,
                   legendCount, viewport, noData, containerPresent,
                   renderThrows, activePanes, isDarkMode, errorCount, leaflet,
                   d3, themeEnv, exportEnv, loadEnv, issueCount, lastIssued,
                   lastCommit, lastInput, focusRead, focusFit, lastCleanup,
                   loadCount, lastThrow, lastZoom>>

\* updateStateViz up to its call of initStateViz, or to its return
UpdateStateVizBody ==
    /\ callStack # <<>>
    /\ callStack[Len(callStack)] = Frame("update", "start")
    /\ LET data == IF filtered = Null THEN <<>> ELSE filtered.items
       IN IF ~d3
          THEN /\ ShowD3NotAvailableMessage
               /\ Return
          ELSE IF ~containerPresent
          THEN /\ Return
               /\ UNCHANGED <<chartFallback, svgPresent, chartBars,
                              chartNoData>>
          ELSE IF ~svgPresent
          THEN \* svg.empty(): this.initStateViz(); return
               /\ Call("init")
               /\ UNCHANGED <<chartFallback, svgPresent, chartBars,
                              chartNoData>>
          ELSE IF renderThrows
          THEN \* catch
               /\ ShowD3NotAvailableMessage
               /\ Return
          ELSE /\ chartBars' = UpdateStateViz(data).bars
               /\ chartNoData' = UpdateStateViz(data).noData
               /\ UNCHANGED <<chartFallback, svgPresent>>
               /\ Return
    /\ UNCHANGED <<raw, filtered, states, activeTab, isLoading,
                   lastFilterApplied, nameInput, stateSelect, options,
                   appState, pending, now, domPurify, mapReady, markers,
                   legendCount, viewport, noData, containerPresent,
                   renderThrows, activePanes, isDarkMode, errorCount, leaflet,
                   d3, themeEnv, exportEnv, loadEnv, issueCount, lastIssued,
                   lastCommit, lastInput, focusRead, focusFit, lastCleanup,
                   loadCount, lastThrow, lastZoom>>

\* The nested call has returned: updateStateViz executes `return`,
\* initStateViz has reached its end.
NestedCallReturns ==
    /\ callStack # <<>>
    /\ callStack[Len(callStack)].pc = "called"
    /\ Return
    /\ UNCHANGED <<raw, filtered, states, activeTab, isLoading,
                   lastFilterApplied, nameInput, stateSelect, options,
                   appState, pending, now, domPurify, mapReady, markers,
                   legendCount, viewport, noData, chartBars, chartNoData,
                   chartFallback, svgPresent, containerPresent, renderThrows,
                   activePanes, isDarkMode, errorCount, leaflet, d3, themeEnv,
                   exportEnv, loadEnv, issueCount, lastIssued, lastCommit,
                   lastInput, focusRead, focusFit, lastCleanup, loadCount,
                   lastThrow, lastZoom>>

\* ---- the loaders' handling of the records of the file ----
MaxLines == 3      \* the file has at most MaxLines lines below its header

\* An empty line of the file.
BlankLine == [blank |-> TRUE]

\* The lines of the file: empty ones, and rows as the parser's transform
\* leaves them (strings sanitized, coordinates numbers), with or without a
\* name.
FileLines == { BlankLine, Rec(<<>>, "CA", 1, 1), Rec(Alice, "CA", 2, 2) }

Sources == UNION { [1..n -> FileLines] : n \in 1..MaxLines }

\* String.prototype.trim
Trim(s) ==
    LET idx == {i \in 1..Len(s) : s[i] # " "}
    IN IF idx = {} THEN <<>> ELSE SubSeq(s, Min(idx), Max(idx))

DigitChar(d) ==
    CASE d = 0 -> "0" [] d = 1 -> "1" [] d = 2 -> "2" [] d = 3 -> "3"
      [] d = 4 -> "4" [] d = 5 -> "5" [] d = 6 -> "6" [] d = 7 -> "7"
      [] d = 8 -> "8" [] d = 9 -> "9"

\* The decimal digits of a number, as a template literal prints it.
RECURSIVE Decimal(_)
Decimal(n) ==
    IF n < 10 THEN <<DigitChar(n)>>
    ELSE Append(Decimal(n \div 10), DigitChar(n % 10))

\* `MysteriousSpuddy${n}`
MysteriousSpuddy(n) ==
    <<"M", "y", "s", "t", "e", "r", "i", "o", "u", "s",
      "S", "p", "u", "d", "d", "y">> \o Decimal(n)

\* skipEmptyLines of Papa.parse; the `continue` of the manual parsers
SkipEmptyLines(lines) == SelectSeq(lines, LAMBDA l : l # BlankLine)

\* utils.loadData, with either parser: the rows of the file, every nameless
\* one named after its index in the parsed data.
HandleEmptyNames(lines) ==
    LET data == SkipEmptyLines(lines)
    IN [k \in 1..Len(data) |->
          IF data[k].WorkbuddyName = <<>>
          THEN [data[k] EXCEPT !.WorkbuddyName = MysteriousSpuddy(1000 + (k - 1))]
          ELSE data[k]]

\* dataLoader.parseCSV: with Papa the nameless rows are named after their
\* index in the parsed data; the manual parser names them after the number i
\* of their line in the file.
ParseCSV(lines) ==
    IF papa
    THEN LET data == SkipEmptyLines(lines)
         IN [k \in 1..Len(data) |->
               IF Trim(data[k].WorkbuddyName) = <<>>
               THEN [data[k] EXCEPT
                        !.WorkbuddyName = MysteriousSpuddy(1000 + (k - 1))]
               ELSE data[k]]
    ELSE LET numbered == [i \in 1..Len(lines) |-> [row |-> lines[i], i |-> i]]
             kept == SelectSeq(numbered, LAMBDA l : l.row # BlankLine)
         IN [k \in 1..Len(kept) |->
               IF Trim(kept[k].row.WorkbuddyName) = <<>>
               THEN [kept[k].row EXCEPT
                        !.WorkbuddyName = MysteriousSpuddy(1000 + kept[k].i)]
               ELSE kept[k].row]

\* ---- app.initializeApp, utils.loadData reads the file ----
InitializeAppFromFile == InitializeApp(HandleEmptyNames(csvText))

\* ---- app.initializeApp, the file has no rows ----
InitializeAppEmptyFile ==
    /\ SkipEmptyLines(csvText) = <<>>
    /\ InitializeAppNoRecords

\* ---- dataLoader.loadCSVFile on the same file ----
LoadCSVFile == UpdateGlobalData(ParseCSV(csvText))

Next ==
    \/ Tick
    \/ \E d \in Datasets : InitializeApp(d)
    \/ InitializeAppFails
    \/ InitializeAppNoRecords
    \/ \E v \in NameTexts : NameInput(v)
    \/ NameClearButton
    \/ \E v \in Range(options) : StateSelectChange(v)
    \/ ClearAllFilters
    \/ ResetFilters
    \/ \E t \in TabButtons : TabClick(t)
    \/ \E i \in 1..Len(chartBars) : BarClick(i)
    \/ RunCallback

Spec == Init /\ [][Next]_vars

\* ---- the page's own operations, with any combination of loaded libraries ----
\* The capture library is taken as not loaded here (the Export button then
\* only reports that); exports with it are the subject of SpecExport.
InitOps ==
    /\ InitStore
    /\ InitThemeLight
    /\ InitParsed
    /\ InitChartWhole
    /\ domPurify \in BOOLEAN
    /\ html2canvasLoaded = FALSE
    /\ leaflet \in BOOLEAN
    /\ d3 \in BOOLEAN

NextOps ==
    \/ \E d \in Datasets : InitializeApp(d)
    \/ \E d \in Datasets : InitializeAppMapThrows(d)
    \/ InitializeAppFails
    \/ InitializeAppNoRecords
    \/ \E v \in NameTexts : NameInput(v)
    \/ NameClearButton
    \/ \E v \in Range(options) : StateSelectChange(v)
    \/ ClearAllFilters
    \/ ResetFilters
    \/ \E t \in TabButtons : TabClick(t)
    \/ \E i \in 1..Len(chartBars) : BarClick(i)
    \/ RunCallback
    \/ ToggleDarkMode
    \/ Resize
    \/ ExportAsPNG

SpecOps == InitOps /\ [][NextOps]_vars

\* ---- the theme module from page load on, in every storage and system
\* setting, next to the loader and the name filter ----
InitTheme ==
    /\ InitStore
    /\ InitParsed
    /\ InitChartWhole
    /\ domPurify = TRUE
    /\ html2canvasLoaded = TRUE
    /\ leaflet = TRUE
    /\ d3 = TRUE
    /\ storedPreference \in StoredValues
    /\ storageAvailable \in BOOLEAN
    /\ matchMediaAvailable \in BOOLEAN
    /\ prefersDark \in BOOLEAN
    /\ darkModeInit = FALSE

\* Texts typed into the name filter here: one that matches some records and
\* one that matches none.
ThemeTexts == { <<"A">>, <<"z">> }

NextTheme ==
    \/ Tick
    \/ InitDarkMode
    \/ ToggleDarkMode
    \/ AmbientChange
    \/ InitializeApp(DataA)
    \/ \E v \in ThemeTexts : NameInput(v)
    \/ \E t \in TabButtons : TabClick(t)
    \/ RunCallback

SpecTheme == InitTheme /\ [][NextTheme]_vars

\* ---- the Export button in every outcome, next to the loader, the name
\* filter and switchTab with any argument ----
ExportDatasets == {DataA, DataBig}

InitExport ==
    /\ InitStore
    /\ InitThemeLight
    /\ InitParsed
    /\ InitChartWhole
    /\ domPurify = TRUE
    /\ leaflet = TRUE
    /\ d3 = TRUE
    /\ html2canvasLoaded \in BOOLEAN

NextExport ==
    \/ \E d \in ExportDatasets : InitializeApp(d)
    \/ \E v \in NameTexts : NameInput(v)
    \/ RunCallback
    \/ \E v \in SwitchArgs : SwitchTabCall(v)
    \/ ExportAsPNG
    \/ \E ok \in BOOLEAN : ExportSettles(ok)

SpecExport == InitExport /\ [][NextExport]_vars

\* ---- the exported functions called by other scripts ----
ApiDatasets == {DataB, DataBig}
ReloadDatasets == {DataA, DataBad}

NextApi ==
    \/ \E d \in ApiDatasets : InitializeApp(d)
    \/ \E v \in NameTexts : NameInput(v)
    \/ \E t \in TabButtons : TabClick(t)
    \/ RunCallback
    \/ \E v \in SwitchArgs : SwitchTabCall(v)
    \/ \E d \in ReloadDatasets : UpdateGlobalData(d)

SpecApi == Init /\ [][NextApi]_vars

\* ---- the loaders on one file, with or without the CSV parser ----
InitLoad ==
    /\ InitStore
    /\ InitThemeLight
    /\ domPurify = TRUE
    /\ html2canvasLoaded = TRUE
    /\ leaflet = TRUE
    /\ d3 = TRUE
    /\ InitChartWhole
    /\ papa \in BOOLEAN
    /\ csvText \in Sources

NextLoad ==
    \/ InitializeAppFromFile
    \/ InitializeAppEmptyFile
    \/ LoadCSVFile
    \/ \E t \in TabButtons : TabClick(t)

SpecLoad == InitLoad /\ [][NextLoad]_vars

\* ---- the map's markers, legend and zoom, with records that share a
\* name, lie on the equator or have no coordinates ----
DataTwins == << Rec(Alice, "CA", 1, 1), Rec(Alice, "NY", 2, 2),
                Rec(Bob, "TX", 0, 0) >>
DataEquator == << Rec(Alice, "CA", 0, 3), Rec(Alice, "NY", 2, 2),
                  Rec(Bob, "TX", 0, 0) >>
MapDatasets == {DataTwins, DataEquator}

InitMap ==
    /\ InitStore
    /\ InitThemeLight
    /\ InitParsed
    /\ InitChartWhole
    /\ domPurify = TRUE
    /\ html2canvasLoaded = TRUE
    /\ leaflet = TRUE
    /\ d3 = TRUE

NextMap ==
    \/ \E d \in MapDatasets : InitializeApp(d)
    \/ \E v \in ThemeTexts : NameInput(v)
    \/ \E v \in Range(options) : StateSelectChange(v)
    \/ \E t \in TabButtons : TabClick(t)
    \/ \E i \in 1..Len(chartBars) : BarClick(i)
    \/ RunCallback
    \/ \E i \in 1..Len(markers) : ZoomClick(i)
    \/ \E n \in ZoomNames : ZoomToSpuddyCall(n)
    \/ CleanupCurrentTab
    \/ CleanupStateVizCall

SpecMap == InitMap /\ [][NextMap]_vars

\* ---- the chart's two functions from every state of its container; between
\* two calls the page loads its records and the name filter is used; a call
\* that has started runs on ----
ChartFunctions == {"init", "update"}

InitChart ==
    /\ InitStore
    /\ InitThemeLight
    /\ InitParsed
    /\ callStack = <<>>
    /\ containerPresent \in BOOLEAN
    /\ svgPresent \in {b \in BOOLEAN : b => containerPresent}
    /\ renderThrows \in BOOLEAN
    /\ domPurify = TRUE
    /\ html2canvasLoaded = TRUE
    /\ leaflet = TRUE
    /\ d3 \in BOOLEAN

ChartStep == InitStateVizBody \/ UpdateStateVizBody \/ NestedCallReturns

NextChart ==
    \/ \E fn \in ChartFunctions : ChartCall(fn)
    \/ InitStateVizBody
    \/ UpdateStateVizBody
    \/ NestedCallReturns
    \/ /\ callStack = <<>>
       /\ containerPresent /\ ~renderThrows
       /\ \E d \in Datasets : InitializeApp(d)
    \/ /\ callStack = <<>>
       /\ \E v \in ThemeTexts : NameInput(v)
    \/ /\ callStack = <<>>
       /\ RunCallback

SpecChart == InitChart /\ [][NextChart]_vars /\ WF_vars(ChartStep)

\* ---- the busy flag: a load of more than LoadingThreshold records, their
\* replacement by a caller of updateGlobalData (one name is no string),
\* typing, the switch to the chart and the clock; a queued timer callback is
\* eventually run ----
DataBigBad ==
    [i \in 1..(LoadingThreshold + 1) |->
        IF i = 1 THEN Rec(NonStringName, "NY", 1, 1) ELSE Rec(Alice, "CA", 1, 1)]

NextBusy ==
    \/ Tick
    \/ InitializeApp(DataBig)
    \/ UpdateGlobalData(DataBigBad)
    \/ \E v \in ThemeTexts : NameInput(v)
    \/ TabClick("states")
    \/ RunCallback

\* setTimeout(..., 0): the callback at the head of the timer queue is taken
\* off the queue and run (under NextBusy such a step is a RunCallback step).
TimerFires == pending # <<>> /\ pending' = Tail(pending)

SpecBusy == Init /\ [][NextBusy]_vars /\ WF_pending(TimerFires)

(***************************************************************************)
(* Properties                                                              *)
(***************************************************************************)

\* C1: a superseded filter operation never overwrites filtered: when the
\* callback of an operation runs after a later operation was issued, it
\* leaves filtered unchanged.
C1_StaleCallbackLeavesFiltered ==
    [][(/\ pending # <<>>
        /\ pending' = Tail(pending)
        /\ Head(pending).seq < issueCount) => filtered' = filtered]_vars

\* C2: filtered never holds a result that was committed by an operation
\* after a later operation had been issued.
C2_OnlyLatestIssuedVisible == lastCommit.seq = lastCommit.issued

\* C3: every filterData call obtains a token strictly greater than that of
\* every earlier call, and the token changes only at issuance.
C3_TokenStrictlyIncreasing ==
    [][/\ (issueCount > 0 /\ issueCount' > issueCount)
            => lastFilterApplied' > lastFilterApplied
       /\ issueCount' = issueCount
            => lastFilterApplied' = lastFilterApplied]_vars

\* C4: once data is loaded and every deferred callback has run, filtered is
\* the result of applying the criteria of the last issued request to raw.
C4_LastIssuedCommitted ==
    (raw # Null /\ pending = <<>> /\ issueCount > 0)
        => filtered = Arr(ApplyFilters(raw.items, lastIssued.nameFilter,
                                       lastIssued.stateFilter))

C4_Witness ==
    /\ raw # Null
    /\ pending = <<>>
    /\ issueCount >= 2
    /\ lastCommit.seq = issueCount
    /\ Len(filtered.items) < Len(raw.items)

\* C5: a committed filter leaves filtered as exactly the subsequence of raw,
\* in raw order, of the records whose name contains the name text without
\* regard to case (empty text matches all) and whose region equals the
\* selector (the 'all' sentinel matches all).
HasAt(s, sub, k) ==
    /\ k + Len(sub) <= Len(s)
    /\ \A j \in 1..Len(sub) : Lower(s[k + j]) = Lower(sub[j])

Satisfies(buddy, nameText, selector) ==
    /\ nameText = <<>> \/
          \E k \in 0..Len(buddy.WorkbuddyName) :
              HasAt(buddy.WorkbuddyName, nameText, k)
    /\ selector = "all" \/ buddy.State = selector

KthSmallest(S, k) == CHOOSE x \in S : Cardinality({y \in S : y < x}) = k - 1

IsExactSelection(f, r, nameText, selector) ==
    LET idx == {i \in 1..Len(r) : Satisfies(r[i], nameText, selector)}
    IN /\ Len(f) = Cardinality(idx)
       /\ \A k \in 1..Len(f) : f[k] = r[KthSmallest(idx, k)]

C5_CommittedFilterExact ==
    lastCommit.seq # 0
        => IsExactSelection(filtered.items, raw.items, lastCommit.nameText,
                            lastCommit.stateFilter)

C5_Witness ==
    /\ lastCommit.seq # 0
    /\ lastCommit.nameText = <<"A">>
    /\ lastCommit.stateFilter \notin {"all", ""}
    /\ Len(filtered.items) = 1
    /\ Len(raw.items) = 3

\* C6: a committed filter whose name text is empty and whose region select
\* reads 'all' (Reset Filters) or the empty string (Clear Filters) leaves
\* filtered equal to raw, same order.
C6_MatchAllYieldsRaw ==
    (/\ lastCommit.seq # 0
     /\ lastCommit.nameText = <<>>
     /\ lastCommit.selectValue \in {"", "all"})
        => filtered = raw

C6_Witness ==
    /\ lastCommit.seq # 0
    /\ lastCommit.nameText = <<>>
    /\ lastCommit.selectValue = ""
    /\ appState = "ready"
    /\ filtered = raw

\* C7: the viewport-framing step of a focus request reads filtered only
\* after the filter issued by that focus request has committed.
C7_FocusFramesAfterCommit ==
    focusRead.seq # 0 => focusRead.committed = focusRead.seq

\* C8: after a focus request for category X and no further input, once the
\* callbacks have run the region criterion is X, the active tab is the map,
\* filtered holds exactly the records matching the criteria and the viewport
\* frames exactly the plotted records of region X.
C8_FocusSettles ==
    (lastInput.kind = "focus" /\ pending = <<>>)
        => LET X == lastInput.category
               pts == SelectSeq(SelectSeq(filtered.items,
                                          LAMBDA b : b.State = X), Mappable)
           IN /\ stateSelect = X
              /\ activeTab = "map"
              /\ IsExactSelection(filtered.items, raw.items, nameInput, X)
              /\ Len(pts) > 0 => viewport = Bounds(pts)

\* C9: the viewport is only ever framed on behalf of a focus request whose
\* filter is the most recently issued one.
C9_FocusFitOnlyWhenCurrent == focusFit.seq = focusFit.issued

\* C10: every change of the active view is preceded, in the same handler, by
\* the cleanup of the previously active view, and raw and filtered are kept.
C10_SwitchPrecededByCleanup ==
    [][activeTab' # activeTab
          => (lastCleanup' = activeTab /\ raw' = raw /\ filtered' = filtered)]_vars

\* C11: a click on the tab that is already active (switchTab(v) with v the
\* active view) changes neither activeTab nor raw, filtered, states or the
\* token, and leaves v rendered from the current filtered: on the map the
\* markers are the plottable records of filtered, framed by the viewport, and
\* the overlay is up exactly when filtered is empty; on the chart (where the
\* chart library is loaded; without it the chart only shows its fallback
\* message) the bars are the region counts of filtered.
C11_SwitchToActiveTabRerenders ==
    [][ (lastCleanup' # "none" /\ now' = now /\ lastCleanup' = activeTab')
        => /\ activeTab' = activeTab
           /\ raw' = raw
           /\ filtered' = filtered
           /\ states' = states
           /\ lastFilterApplied' = lastFilterApplied
           /\ activeTab' = "map" =>
                 /\ markers' = SelectSeq(filtered.items, Mappable)
                 /\ Len(markers') > 0 => viewport' = Bounds(markers')
                 /\ noData' = "shown" <=> Len(filtered.items) = 0
           /\ (activeTab' = "states" /\ d3) =>
                 /\ chartBars' = UpdateStateViz(filtered.items).bars
                 /\ chartNoData' = (Len(filtered.items) = 0) ]_vars

\* The map tab was clicked while the map was active and framed for a focus
\* request whose filter is still queued.
C11_Witness ==
    /\ d3
    /\ lastCleanup = "map"
    /\ activeTab = "map"
    /\ focusRead.seq = issueCount
    /\ focusRead.seq > 0
    /\ pending # <<>>
    /\ Len(markers) > 1
    /\ viewport = Bounds(markers)

\* C12: once the page is up, for every view identifier of {map, states,
\* network} that switchTab was last called with, exactly one tab pane is
\* marked active, and it is the pane of that view.
C12_ExactlyOnePaneActive ==
    (appState = "ready" /\ activeTab \in ViewIds) => activePanes = {activeTab}

\* C13: activeTab is always one of the view identifiers {map, states,
\* network}, whatever switchTab is called with.
C13_ActiveTabInViewIds == activeTab \in ViewIds

\* C14: once raw is set, no step of the page's operations (filter issue or
\* commit, tab click with its cleanup, bar-click focus, theme toggle, export,
\* resize) changes raw; raw changes only in a step of the loader.
C14_RawFrozenAfterLoad ==
    [][ /\ raw # Null => raw' = raw
        /\ raw' # raw => loadCount' = loadCount + 1 ]_vars

\* After the load a filter was committed that narrowed filtered, a focus
\* request was made and the theme was toggled.
C14_Witness ==
    /\ raw # Null
    /\ lastCommit.seq > 0
    /\ Len(filtered.items) < Len(raw.items)
    /\ focusRead.seq > 0
    /\ isDarkMode

\* C15: whenever raw is set, states holds exactly the non-empty State values
\* present in raw, each once, in ascending sort order; and states changes
\* only in a step that sets raw (never in a filter step).
C15_CategoriesSortedDistinct ==
    /\ [](raw # Null =>
            /\ states # Null
            /\ Range(states.items)
                 = {raw.items[i].State : i \in 1..Len(raw.items)} \ {""}
            /\ \A i, j \in 1..Len(states.items) :
                  i < j => /\ states.items[i] # states.items[j]
                           /\ StrRank(states.items[i]) < StrRank(states.items[j]))
    /\ [][loadCount' = loadCount => states' = states]_vars

\* raw was replaced by records whose regions first occur in descending
\* order, after a filter had narrowed filtered, and filters were committed.
C15_Witness ==
    /\ loadCount = 2
    /\ raw = Arr(DataBad)
    /\ states = Arr(<<"CA", "NY">>)
    /\ lastCommit.seq = MaxIssue
    /\ pending = <<>>

\* C16: every step that sets raw (loadData, updateGlobalData) ends with
\* filtered equal to raw, record for record, and with isLoading false,
\* whatever isLoading and the queued filter callbacks were before.
C16_LoadResetsFilteredAndBusy ==
    [][loadCount' # loadCount
         => /\ filtered' = raw'
            /\ isLoading' = FALSE]_vars

\* C17: when the loader failed (it threw, or it returned no records), raw is
\* null or empty, exactly one error message has been shown, and neither the
\* map nor the chart has been initialised or drawn; this stays so under
\* every later event.
C17_LoadFailureLeavesNothing ==
    appState = "failed" =>
        /\ raw = Null \/ raw = Arr(<<>>)
        /\ errorCount = 1
        /\ ~mapReady
        /\ markers = <<>>
        /\ viewport = InitialView
        /\ noData = "absent"
        /\ chartBars = <<>>
        /\ ~chartNoData
        /\ ~chartFallback

\* The loader returned no records; afterwards the theme was toggled and a
\* Clear Filters request was committed.
C17_Witness ==
    /\ appState = "failed"
    /\ raw = Arr(<<>>)
    /\ isDarkMode
    /\ lastCommit.seq > 0
    /\ filtered = Arr(<<>>)

\* C18: when the predicate throws in a filter callback, filtered keeps its
\* value, a notice is shown to the user, and the callbacks queued behind it
\* stay queued to run.
C18_ThrowKeepsFilteredAndNotifies ==
    [][lastThrow' # lastThrow
         => /\ filtered' = filtered
            /\ pending' = Tail(pending)
            /\ errorCount' > errorCount]_vars

\* C19: when at most one of the map and chart libraries is missing, once the
\* loader has delivered records startup completes (listeners installed, page
\* ready), the view whose library is present is initialised, and only the
\* view whose library is missing shows its fallback.
C19_MissingBackendDegradesOneView ==
    (raw # Null /\ Len(raw.items) > 0 /\ appState # "loading"
       /\ (leaflet \/ d3))
        => /\ appState = "ready"
           /\ leaflet => mapReady
           /\ d3 <=> ~chartFallback

\* C20: a record whose coordinates are (0,0) (also where the source cell was
\* not numeric) is never among the map's markers; it is still selected by a
\* committed filter whose criteria it meets, and while the chart is shown it
\* is counted in the bar of its region.
Unplottable(buddy) == buddy.latitude = 0 /\ buddy.longitude = 0

C20_ZeroCoordinateRecords ==
    /\ \A k \in 1..Len(markers) : ~Unplottable(markers[k])
    /\ lastCommit.seq # 0 =>
          \A i \in 1..Len(raw.items) :
              (/\ Unplottable(raw.items[i])
               /\ Satisfies(raw.items[i], lastCommit.nameText,
                            lastCommit.stateFilter))
                 => raw.items[i] \in Range(filtered.items)
    /\ (appState = "ready" /\ activeTab = "states" /\ d3) =>
          \A i \in 1..Len(filtered.items) :
              LET buddy == filtered.items[i]
              IN (Unplottable(buddy) /\ buddy.State # "") =>
                    \E k \in 1..Len(chartBars) :
                        /\ chartBars[k].state
                             = SanitizeString(SanitizeString(buddy.State))
                        /\ chartBars[k].count
                             = Cardinality({j \in 1..Len(filtered.items) :
                                   filtered.items[j].State = buddy.State})

\* The record without usable coordinates is the only one a committed region
\* filter selected; the chart shows its region with count 1, and the map,
\* drawn before from all records, has markers but none for it.
C20_Witness ==
    /\ appState = "ready"
    /\ activeTab = "states"
    /\ lastCommit.stateFilter = "NY"
    /\ filtered = Arr(<<Rec(Bob, "NY", 0, 0)>>)
    /\ Len(chartBars) = 1
    /\ chartBars[1].count = 1
    /\ Len(markers) = 2

\* C21: while the chart is the active view it holds exactly one bar per
\* region value present in filtered (records without a region form no bar),
\* labelled with the chart's rendering of that value; the bar's count is the
\* number of records of filtered with that region; and the bars are in
\* descending order of count.
ChartLabel(region) == SanitizeString(SanitizeString(region))

RegionsOf(data) == {data[i].State : i \in 1..Len(data)} \ {""}

C21_ChartGroupsFiltered ==
    (appState = "ready" /\ activeTab = "states" /\ d3) =>
        /\ Len(chartBars) = Cardinality(RegionsOf(filtered.items))
        /\ \A region \in RegionsOf(filtered.items) :
              \E k \in 1..Len(chartBars) :
                  /\ chartBars[k].state = ChartLabel(region)
                  /\ chartBars[k].count
                       = Cardinality({i \in 1..Len(filtered.items) :
                                        filtered.items[i].State = region})
        /\ \A i, j \in 1..Len(chartBars) :
              i < j => chartBars[i].count >= chartBars[j].count

\* The chart shows records whose first region has fewer records than the
\* second: the bars are CA:2 then NY:1.
C21_Witness ==
    /\ appState = "ready"
    /\ activeTab = "states"
    /\ filtered = Arr(DataBad)
    /\ chartBars = << [state |-> "CA", count |-> 2],
                      [state |-> "NY", count |-> 1] >>

\* C22: a view drawn from an empty filtered shows its no-results state (map:
\* the 'No Spuddies Found' overlay and no markers; chart: 'No data to
\* display'), and a view drawn from a non-empty filtered does not.  The active
\* view is drawn at every change of filtered, so this holds of it in every
\* state; a step that puts the overlay up or takes it down (also while the
\* map is not the active view: the theme toggle redraws it) does so by this
\* rule, and so does a step that changes the chart's message.
C22_EmptyResultShown ==
    /\ [](appState = "ready" =>
            /\ (activeTab = "map" /\ mapReady) =>
                  /\ noData = "shown" <=> Len(filtered.items) = 0
                  /\ noData = "shown" => markers = <<>>
            /\ (activeTab = "states" /\ d3) =>
                  /\ chartNoData <=> Len(filtered.items) = 0
                  /\ chartNoData => chartBars = <<>>)
    /\ [][ /\ (noData' # noData /\ noData' = "shown")
               => (Len(filtered'.items) = 0 /\ markers' = <<>>)
           /\ (noData' # noData /\ noData = "shown")
               => Len(filtered'.items) > 0
           /\ (chartNoData' # chartNoData)
               => (chartNoData' <=> Len(filtered'.items) = 0) ]_vars

\* A filter that matches nothing was committed while the chart was the
\* active view, and the theme toggle then redrew the map behind it.
C22_Witness ==
    /\ appState = "ready"
    /\ activeTab = "states"
    /\ d3
    /\ filtered = Arr(<<>>)
    /\ chartNoData
    /\ chartBars = <<>>
    /\ noData = "shown"
    /\ markers = <<>>
    /\ isDarkMode

\* C23: a theme change (the toggle, the startup's enable or disable, a change
\* of the system colour scheme) leaves raw, filtered, states, activeTab and
\* lastFilterApplied as they are, issues no filter operation, and leaves every
\* queued filter callback queued, with its token as current or as stale as it
\* was.
ThemeStep ==
    \/ isDarkMode' # isDarkMode
    \/ storedPreference' # storedPreference
    \/ prefersDark' # prefersDark
    \/ darkModeInit' # darkModeInit

C23_ThemeChangeIsVisualOnly ==
    [][ThemeStep =>
          /\ raw' = raw
          /\ filtered' = filtered
          /\ states' = states
          /\ activeTab' = activeTab
          /\ lastFilterApplied' = lastFilterApplied
          /\ issueCount' = issueCount
          /\ pending' = pending
          /\ \A k \in 1..Len(pending) :
                (pending[k].token = lastFilterApplied')
                    <=> (pending[k].token = lastFilterApplied)]_vars

\* The system colour scheme changed while a filter callback was queued with
\* the current token and the chart was the active view; no preference is
\* stored, so the theme followed the system to dark.
C23_Witness ==
    /\ appState = "ready"
    /\ activeTab = "states"
    /\ lastInput.kind = "ambient"
    /\ SafeGetStorageItem = "null"
    /\ prefersDark
    /\ isDarkMode
    /\ now > 0
    /\ pending # <<>>
    /\ Head(pending).token = lastFilterApplied
    /\ Len(filtered.items) < Len(raw.items)

\* C24: the stored theme preference is written by a click on the toggle and
\* by nothing else: where the storage can be written, a toggle leaves the
\* stored value equal to the new flag ('true' or 'false'); a step that is not
\* a toggle (the startup initialisation, a change of the system colour
\* scheme, any other handler) leaves the stored value as it is; so once the
\* theme module is initialised, a valid stored value always equals the flag.
ToggleStep == lastInput'.kind = "toggle" /\ isDarkMode' # isDarkMode

ValidStored == storageAvailable /\ storedPreference \in {"true", "false"}

StartupTheme ==
    IF ValidStored THEN storedPreference = "true"
    ELSE matchMediaAvailable /\ prefersDark

C25_StartupAndAmbientTheme ==
    [][ /\ (~darkModeInit /\ darkModeInit') => isDarkMode' = StartupTheme
        /\ (prefersDark' # prefersDark /\ isDarkMode' # isDarkMode)
              => ~ValidStored
        /\ (prefersDark' # prefersDark /\ darkModeInit /\ ~ValidStored)
              => isDarkMode' = prefersDark' ]_vars

\* Startup found a malformed stored value and took the system's dark
\* preference; the loader has not returned yet.
C25_Witness ==
    /\ darkModeInit
    /\ appState = "loading"
    /\ lastInput.kind = "other"
    /\ storageAvailable
    /\ storedPreference = "malformed"
    /\ matchMediaAvailable
    /\ prefersDark
    /\ isDarkMode

\* C26: isLoading is true in every state in which a filter callback is still
\* queued (whatever the size of the dataset, and also after an older callback
\* has run while a newer one is queued), and in every state in which the
\* initial load has not returned yet.
C26_BusyWhileInFlight ==
    /\ pending # <<>> => isLoading
    /\ appState = "loading" => isLoading

\* C27: once the page is up, a step that is no tab switch (a filter commit, a
\* resize, a theme change, a data update) redraws at most the active view:
\* while the map is not the active view its markers, viewport and overlay
\* stay as they are, and while the chart is not the active view its bars and
\* messages stay as they are.
C27_OnlyActiveViewRendered ==
    [][(appState = "ready" /\ activeTab' = activeTab) =>
          /\ activeTab # "map" => UNCHANGED <<markers, viewport, noData>>
          /\ activeTab # "states" =>
                UNCHANGED <<chartBars, chartNoData, chartFallback>>]_vars

\* C28: a view is initialised and drawn only from the first activation of
\* its tab on: the chart's bars and messages change only in a step that ends
\* with 'states' as the active tab (activeTab starts as 'map', so nothing of
\* the chart exists before 'states' is first activated), the map is created
\* only in a step that ends with 'map' as the active tab, and a map once
\* created is kept.
C28_AdaptersCreatedLazily ==
    [][ /\ <<chartBars, chartNoData, chartFallback>>'
              # <<chartBars, chartNoData, chartFallback>>
            => activeTab' = "states"
        /\ mapReady' # mapReady => activeTab' = "map"
        /\ mapReady => mapReady' ]_vars

\* C29: keystrokes in the name filter that follow one another within the
\* debounce window issue one filter operation between them: a keystroke that
\* comes at the very instant of the previous keystroke, whose filter
\* operation is still queued, issues no further filter operation.
C29_NameFilterDebounced ==
    [][(/\ lastInput.kind = "key"
        /\ lastInput'.kind = "key"
        /\ nameInput' # nameInput
        /\ pending # <<>>
        /\ pending[Len(pending)].seq = issueCount
        /\ pending[Len(pending)].token = now
        /\ now' = now)
          => issueCount' = issueCount]_vars

\* C30: an export leaves raw, filtered, states, activeTab, lastFilterApplied
\* and isLoading (and the queued filter callbacks) as they are, in each of
\* its outcomes, and tells the user of every failure: the click reports a
\* missing capture library, an unknown active view or a missing container by
\* an alert and otherwise starts the capture; the capture ends in the
\* download or in the alert that the export failed.  No outcome is an
\* exception: the page stays as it was.
ExportStep ==
    /\ lastInput'.kind = "export"
    /\ <<lastInput, captures>>' # <<lastInput, captures>>

C30_ExportLeavesStateAndReports ==
    [][ExportStep =>
          /\ raw' = raw
          /\ filtered' = filtered
          /\ states' = states
          /\ activeTab' = activeTab
          /\ lastFilterApplied' = lastFilterApplied
          /\ isLoading' = isLoading
          /\ pending' = pending
          /\ appState' = appState
          /\ errorCount' = errorCount
          /\ IF captures' < captures
             THEN lastInput'.category \in {"saved", "failed"}
             ELSE /\ ~html2canvasLoaded
                       => lastInput'.category = "library not loaded"
                  /\ (html2canvasLoaded /\ activeTab \notin ViewIds)
                       => lastInput'.category = "cannot export"
                  /\ (html2canvasLoaded /\ activeTab = "network")
                       => lastInput'.category = "container not found"
                  /\ (html2canvasLoaded /\ activeTab \in {"map", "states"})
                       => /\ lastInput'.category = "preparing"
                          /\ captures' = captures + 1]_vars

\* A capture failed while a filter callback was queued and the loading
\* overlay was up.
C30_Witness ==
    /\ lastInput = ExportInput("failed")
    /\ captures = 0
    /\ pending # <<>>
    /\ isLoading
    /\ Len(filtered.items) > LoadingThreshold

\* C31: at load, every record with an empty name receives a synthesized
\* name derived from its position: two records of the same load never
\* receive the same synthesized name, and loading the identical file again
\* gives every record the name it had.
Nameless(lines) ==
    LET data == SkipEmptyLines(lines)
    IN {k \in 1..Len(data) : data[k].WorkbuddyName = <<>>}

C31_NamesDistinctInOneLoad ==
    raw # Null =>
        /\ Len(raw.items) = Len(SkipEmptyLines(csvText))
        /\ \A k \in Nameless(csvText) : raw.items[k].WorkbuddyName # <<>>
        /\ \A j, k \in Nameless(csvText) :
              j # k => raw.items[j].WorkbuddyName # raw.items[k].WorkbuddyName

C31_SynthesizedNames ==
    /\ []C31_NamesDistinctInOneLoad
    /\ [][(raw # Null /\ loadCount' = loadCount + 1) =>
             \A k \in 1..Len(raw.items) :
                raw'.items[k].WorkbuddyName = raw.items[k].WorkbuddyName]_vars

\* C32: zoomToSpuddy tolerates duplicate names: for any name it resolves to
\* the first record of filtered with that name, moves the viewport to that
\* record's coordinate when it has one (it is not missing, not non-numeric,
\* not exactly (0,0)), and otherwise does nothing; it never changes the
\* store.
\* A step that ends with a zoom as the latest input and takes no callback off
\* the queue is a call of zoomToSpuddy.
ZoomStep == lastInput'.kind = "zoom" /\ pending' = pending

C32_ZoomResolvesFirstMatch ==
    [][ZoomStep =>
          LET data == filtered.items
              idx == FoundAt(data, lastZoom'.name)
          IN /\ (idx # {} /\ ~Unplottable(data[Min(idx)]))
                    => viewport' = ZoomView(data[Min(idx)])
             /\ (idx = {} \/ Unplottable(data[Min(idx)]))
                    => viewport' = viewport
             /\ UNCHANGED <<raw, filtered, states, activeTab,
                            lastFilterApplied, isLoading, pending,
                            markers>>]_vars

\* C33: calling cleanup on an adapter twice in a row, or on an adapter that
\* was never activated, has the same effect as calling it once: the second
\* call changes nothing, and no cleanup call changes raw, filtered, states,
\* activeTab or the filter token.
CleanupStep == lastInput'.kind = "cleanup" /\ lastCleanup' # "none"

AfterCleanup == lastInput.kind = "cleanup" /\ lastCleanup # "none"

C33_CleanupIdempotent ==
    [][CleanupStep =>
          /\ UNCHANGED <<raw, filtered, states, activeTab, lastFilterApplied>>
          /\ AfterCleanup =>
                UNCHANGED <<markers, legendCount, viewport, noData, mapReady,
                            chartBars, chartNoData, chartFallback,
                            activePanes, isLoading, pending, nameInput,
                            stateSelect, options, appState, errorCount>>]_vars

\* cleanupStateViz was called while the chart was the active view and drawn
\* from a narrowed selection; its bars are still there.
C33_Witness ==
    /\ lastInput.kind = "cleanup"
    /\ lastCleanup = "states"
    /\ appState = "ready"
    /\ activeTab = "states"
    /\ Len(chartBars) > 0
    /\ Len(filtered.items) < Len(raw.items)

\* cleanup was called before anything was loaded or shown.
C33_WitnessNeverActivated ==
    /\ lastInput.kind = "cleanup"
    /\ lastCleanup = "states"
    /\ appState = "loading"
    /\ chartBars = <<>>

\* C34: a record is not mappable only when its coordinate is missing or
\* exactly (0,0): once the map has been rendered from filtered, every record
\* of filtered whose coordinates are not both zero, a record with exactly one
\* zero coordinate included, is among the plotted markers.
C34_OneZeroCoordinatePlotted ==
    (/\ appState = "ready"
     /\ mapReady
     /\ activeTab = "map"
     /\ pending = <<>>) =>
        \A k \in 1..Len(filtered.items) :
            ~Unplottable(filtered.items[k]) =>
                \E i \in 1..Len(markers) : markers[i] = filtered.items[k]

\* C35: the active view is never stale at rest: in every state after startup
\* with no filter callback pending, what the active view shows (the map's
\* markers and overlay, the chart's bars and message) is what its adapter
\* renders from the current value of filtered.
C35_ActiveViewCurrentAtRest ==
    (appState = "ready" /\ pending = <<>>) =>
        /\ (activeTab = "map" /\ mapReady) =>
              /\ markers = SelectSeq(filtered.items, Mappable)
              /\ (noData = "shown") = (Len(filtered.items) = 0)
        /\ (activeTab = "states" /\ d3) =>
              /\ chartBars = UpdateStateViz(filtered.items).bars
              /\ chartNoData = UpdateStateViz(filtered.items).noData

\* A committed operation narrowed filtered while the map was active, the tab
\* was then switched to the chart, and nothing is pending.
C35_Witness ==
    /\ appState = "ready"
    /\ pending = <<>>
    /\ lastCommit.seq > 0
    /\ Len(filtered.items) > 0
    /\ Len(filtered.items) < Len(raw.items)
    /\ lastCleanup = "map"
    /\ activeTab = "states"
    /\ d3
    /\ chartBars = UpdateStateViz(filtered.items).bars

\* C36: when a filter operation commits, the view it renders is the one
\* active at commit time, whatever view was active when the operation was
\* issued: that view shows the new filtered and the other view is left as it
\* was.
CommitStep == pending # <<>> /\ lastCommit'.seq # lastCommit.seq

C36_CommitRendersViewActiveAtCommit ==
    [][CommitStep =>
          /\ lastCommit'.seq = Head(pending).seq
          /\ activeTab' = activeTab
          /\ (activeTab = "map" /\ mapReady) =>
                /\ markers' = SelectSeq(filtered'.items, Mappable)
                /\ UNCHANGED <<chartBars, chartNoData, chartFallback>>
          /\ (activeTab = "states" /\ d3) =>
                /\ chartBars' = UpdateStateViz(filtered'.items).bars
                /\ chartNoData' = UpdateStateViz(filtered'.items).noData
                /\ UNCHANGED <<markers, legendCount, viewport, noData>>
          /\ activeTab \notin ViewIds =>
                UNCHANGED <<markers, legendCount, viewport, noData, chartBars,
                            chartNoData, chartFallback>>]_vars

\* The operation of a bar click was issued while the chart was active (the
\* handler calls filterData before switchTab('map')) and has committed on
\* the map: the markers are those of the new filtered and the chart still
\* shows the bars of the old one.
C36_Witness ==
    /\ lastInput.kind = "focus"
    /\ lastCommit.seq = focusRead.seq
    /\ pending = <<>>
    /\ activeTab = "map"
    /\ mapReady /\ d3
    /\ Len(filtered.items) < Len(raw.items)
    /\ markers = SelectSeq(filtered.items, Mappable)
    /\ chartBars # UpdateStateViz(filtered.items).bars

\* C37: at rest filtered agrees with the filter inputs: in every state after
\* the load with no filter callback pending, filtered is the result of
\* applying the current values of the name and region inputs to raw.
C37_FilteredAgreesWithInputsAtRest ==
    (appState = "ready" /\ pending = <<>>) =>
        \/ PredicateThrows(raw.items, ReadNameFilter(nameInput))
        \/ filtered.items = ApplyFilters(raw.items, ReadNameFilter(nameInput),
                                         ReadStateFilter(stateSelect))

\* C38: the busy flag is always eventually cleared: in every state with no
\* filter operation pending (every deferred callback has run, whether it
\* committed, was stale, found no raw data or threw) isLoading is false, and
\* a raised flag is lowered again.
C38_BusyFlagCleared ==
    /\ [](pending = <<>> => ~isLoading)
    /\ (isLoading ~> ~isLoading)

\* More than LoadingThreshold records are stored, a typed name raised the
\* flag, its callback threw, and the flag is down with nothing pending.
C38_Witness ==
    /\ appState = "ready"
    /\ Len(raw.items) > LoadingThreshold
    /\ lastThrow = issueCount
    /\ lastThrow > 0
    /\ pending = <<>>
    /\ ~isLoading

\* C39: after every map render the legend's visible count equals the number
\* of markers plotted on the map, also when filtered is empty (count 0) and
\* when a non-empty filtered has no mappable record.
C39_LegendCountsMarkers ==
    (appState = "ready" /\ mapReady) => legendCount = Len(markers)

\* C40: the mutual recursion between updateStateViz and initStateViz always
\* terminates: from any state of the chart container (svg present, svg absent,
\* container replaced by the fallback message, backend missing, render
\* throwing) a call to either function has at most one nested init and one
\* nested update below it, and it returns.
NestedCalls(fn) == {k \in 2..Len(callStack) : callStack[k].fn = fn}

C40_ChartRecursionTerminates ==
    /\ [](/\ Cardinality(NestedCalls("init")) <= 1
          /\ Cardinality(NestedCalls("update")) <= 1)
    /\ (callStack # <<>> ~> callStack = <<>>)

\* updateStateViz found no svg and called initStateViz, which created the svg
\* and called updateStateViz again, whose render is about to throw.
C40_Witness ==
    /\ Len(callStack) = 3
    /\ callStack[1] = Frame("update", "called")
    /\ callStack[2] = Frame("init", "called")
    /\ callStack[3] = Frame("update", "start")
    /\ svgPresent
    /\ renderThrows

====
